---- MODULE Spec2Model ----
(***************************************************************************)
(* Model of pkg/rpc/client.go of solana-rpc-exporter: the JSON-RPC client  *)
(* with its two TTL-bounded cache slots (version, health) behind one       *)
(* sync.RWMutex, the generic getResponse pipeline, the typed methods and   *)
(* the TestConnection retry loop with exponential backoff.                 *)
(*                                                                         *)
(* Time is a discrete clock in seconds.  Each caller (goroutine) is a      *)
(* process with a program counter; one action is one step between two      *)
(* points where another goroutine may interleave (lock operations, the     *)
(* HTTP exchange, the select of the backoff wait).                         *)
(***************************************************************************)
EXTENDS Integers, Sequences, FiniteSets, TLC

VARIABLES
    now,            \* wall clock, seconds (time.Now / time.Since)
    ticks,          \* number of times the clock has advanced
    menu,           \* per goroutine: the exported methods it calls in this run
    budget,         \* the number of exported calls made in this run
    tickBudget,     \* the number of free advances of the clock in this run
    versionCache,   \* Client.versionCache: Nil or [value, timestamp]
    healthCache,    \* Client.healthCache:  Nil or [value, timestamp]
    readers,        \* cacheMutex: goroutines holding the shared lock
    writer,         \* cacheMutex: goroutine past the writers' gate of Lock(), or None
    pc,             \* per goroutine: position in the code
    op,             \* per goroutine: the exported method it called
    arg,            \* per goroutine: that call's argument (slot / commitment)
    ctxDone,        \* per goroutine: ctx.Done() of the call's context is closed
    calls,          \* number of exported calls begun so far
    i,              \* TestConnection: loop index
    retryDelay,     \* TestConnection: current backoff delay
    lastErr,        \* TestConnection: lastErr
    timerAt,        \* TestConnection: instant at which time.After(retryDelay) fires
    attempts,       \* TestConnection: GetVersion invocations made so far
    tcReqs,         \* TestConnection: HTTP requests issued over its attempts
    tcWaits,        \* TestConnection: the delays of the backoff waits entered
    tcErr,          \* TestConnection: the error it returned
    reqs,           \* HTTP requests issued by the current typed-method invocation
    wire,           \* the request body last handed to HttpClient.Do
    seen,           \* the cache slot as read under the shared lock
    readAt,         \* the instant of that read
    hit,            \* the read took the cache-hit branch
    val,            \* the value the typed method holds (cached copy / resp.Result)
    got,            \* what the HTTP exchange of the invocation ended in
    gotAt,          \* the instant it ended
    nreq,           \* HTTP requests issued in this run, over all goroutines
    res             \* what the last finished invocation returned: [val, err]

runVars   == <<menu, budget, tickBudget>>
cacheVars == <<versionCache, healthCache>>
lockVars  == <<readers, writer>>
callVars  == <<op, arg, ctxDone, calls>>
tcVars    == <<i, retryDelay, lastErr, timerAt, attempts, tcReqs, tcWaits, tcErr>>
invVars   == <<reqs, wire, seen, readAt, hit, val, got, gotAt>>
vars == <<now, ticks, nreq, runVars, cacheVars, lockVars, pc, callVars, tcVars,
          invVars, res>>

----------------------------------------------------------------------------
(* Bounds of the model *)

\* free advances of the clock in a run (the advance to the expiry of a
\* pending backoff timer is always possible)
MaxTicks == 2
\* exported calls made in a run, over all goroutines
MaxCalls == 3

Procs == {"g1", "g2", "g3"}
\* amounts by which the clock advances in one step
TickSteps == {1, 60}
\* result payloads a node may send
Results == {"r1", "r2"}
\* the JSON-RPC error codes a node may send (0 and a non-zero one)
ErrCodes == {0, -32005}
Slots == {-1, 5}

----------------------------------------------------------------------------
(* Program constants *)

\* NewRPCClient: cacheValidity: 60 * time.Second
cacheValidity == 60
\* TestConnection: maxRetries := 3
maxRetries == 3
\* TestConnection: retryDelay := time.Second * 2
InitialRetryDelay == 2

CommitmentFinalized == "finalized"
CommitmentConfirmed == "confirmed"
CommitmentProcessed == "processed"
Commitments == {CommitmentFinalized, CommitmentConfirmed, CommitmentProcessed}

Nil == [set |-> FALSE]
None == "none"
NoArg == [none |-> TRUE]
NoWire == [sent |-> FALSE]
NoOutcome == [kind |-> "none"]

\* cachedValue[T]{value, timestamp}
cachedValue(v, t) == [set |-> TRUE, value |-> v, timestamp |-> t]

----------------------------------------------------------------------------
(* Errors *)

NoErr == [kind |-> "nil"]
\* fmt.Errorf("%s RPC call failed: %w", method, err)
TransportErr(m, cause) == [kind |-> "transport", method |-> m, cause |-> cause]
\* fmt.Errorf("error reading response: %w", err)
ReadErr == [kind |-> "read"]
\* fmt.Errorf("failed to decode response: %w", err)
DecodeErr == [kind |-> "decode"]
\* rpcResponse.Error.Method = method; return &rpcResponse.Error
RpcErr(m, c) == [kind |-> "rpc", method |-> m, code |-> c]
\* ctx.Err()
CtxErr == [kind |-> "context canceled"]
\* fmt.Errorf("failed to connect after %d attempts: %w", maxRetries, lastErr)
ExhaustedErr(n, e) == [kind |-> "failed to connect", attempts |-> n, wrapped |-> e]

----------------------------------------------------------------------------
(* Typed Method Set: method names and parameter lists *)

Ops == {"GetBlockTime", "GetEpochInfo", "GetVersion", "GetHealth",
        "GetMinimumLedgerSlot", "GetFirstAvailableBlock", "TestConnection"}
CachedOps == {"GetVersion", "GetHealth"}

\* the arguments a caller may pass to an exported method
ArgsOf(o) ==
    CASE o = "GetBlockTime" -> {[slot |-> s] : s \in Slots}
      [] o = "GetEpochInfo" -> {[commitment |-> c] : c \in Commitments}
      [] OTHER -> {NoArg}

\* the method strings, had every one been named after its Go method
MethodNameUniform(o) ==
    CASE o = "GetBlockTime" -> "getBlockTime"
      [] o = "GetEpochInfo" -> "getEpochInfo"
      [] o = "GetVersion" -> "getVersion"
      [] o = "GetHealth" -> "getHealth"
      [] o = "GetMinimumLedgerSlot" -> "getMinimumLedgerSlot"
      [] o = "GetFirstAvailableBlock" -> "getFirstAvailableBlock"

\* the method string each typed method hands to getResponse
MethodName(o) ==
    CASE o = "GetBlockTime" -> "getBlockTime"
      [] o = "GetEpochInfo" -> "getEpochInfo"
      [] o = "GetVersion" -> "getVersion"
      [] o = "GetHealth" -> "getHealth"
      [] o = "GetMinimumLedgerSlot" -> "minimumLedgerSlot"
      [] o = "GetFirstAvailableBlock" -> "getFirstAvailableBlock"

\* the []any each typed method hands to getResponse
ParamsOf(o, a) ==
    CASE o = "GetBlockTime" -> <<[int64 |-> a.slot]>>
      [] o = "GetEpochInfo" -> <<[commitment |-> a.commitment]>>
      [] OTHER -> <<>>

\* getResponse: request := &Request{Jsonrpc: "2.0", Id: 1, Method, Params}
Request(method, params) ==
    [Jsonrpc |-> "2.0", Id |-> 1, Method |-> method, Params |-> params]

\* json.Marshal(request): the struct's fields under their json tags
Marshal(request) ==
    [jsonrpc |-> request.Jsonrpc, id |-> request.Id,
     method |-> request.Method, params |-> request.Params]

----------------------------------------------------------------------------
(* The HTTP exchange and the decoding of its body *)

\* a response body: not JSON at all, or a JSON object whose "result" and
\* "error" members may each be present or absent
Malformed == [json |-> FALSE]
JsonBody(hasResult, result, hasError, code) ==
    [json |-> TRUE, hasResult |-> hasResult, result |-> result,
     hasError |-> hasError, code |-> code]
Bodies ==
    {Malformed}
    \cup {JsonBody(FALSE, "", FALSE, 0)}
    \cup {JsonBody(TRUE, r, FALSE, 0) : r \in Results}
    \cup {JsonBody(FALSE, "", TRUE, c) : c \in ErrCodes}
    \cup {JsonBody(TRUE, "r1", TRUE, c) : c \in ErrCodes}

\* what HttpClient.Do and io.ReadAll can come back with
DoFailed(cause) == [kind |-> "do", cause |-> cause]
ReadFailed == [kind |-> "read"]
\* a response with HTTP status st and body b; the status is never looked at
GotReply(st, b) == [kind |-> "body", status |-> st, body |-> b]
GotBody(b) == GotReply(200, b)
\* a response with an error status whose body decodes with error.code 0
ErrorReplies == {GotReply(500, JsonBody(FALSE, "", FALSE, 0))}

\* Response[T]{Result, Error{Code, Method}} with T's zero value ""
Response(result, code) ==
    [Result |-> result, Error |-> [Code |-> code, Method |-> ""]]

\* json.Unmarshal(body, rpcResponse): absent members keep their zero value
Unmarshal(body) ==
    IF ~body.json THEN [ok |-> FALSE, resp |-> Response("", 0)]
    ELSE [ok |-> TRUE,
          resp |-> Response(IF body.hasResult THEN body.result ELSE "",
                            IF body.hasError THEN body.code ELSE 0)]

\* getResponse with a check of the HTTP status before the body is read
StatusChecked(method, outcome) ==
    IF outcome.kind = "do" THEN TransportErr(method, outcome.cause)
    ELSE IF outcome.kind = "read" THEN ReadErr
    ELSE IF outcome.status # 200 THEN TransportErr(method, "status")
    ELSE IF ~Unmarshal(outcome.body).ok THEN DecodeErr
    ELSE IF Unmarshal(outcome.body).resp.Error.Code # 0
         THEN RpcErr(method, Unmarshal(outcome.body).resp.Error.Code)
    ELSE NoErr

\* getResponse with the error check skipped when a result came along
ResultTakesPrecedence(method, outcome) ==
    IF outcome.kind = "do" THEN TransportErr(method, outcome.cause)
    ELSE IF outcome.kind = "read" THEN ReadErr
    ELSE IF ~Unmarshal(outcome.body).ok THEN DecodeErr
    ELSE IF Unmarshal(outcome.body).resp.Error.Code # 0
            /\ Unmarshal(outcome.body).resp.Result = ""
         THEN RpcErr(method, Unmarshal(outcome.body).resp.Error.Code)
    ELSE NoErr

\* getResponse after the request is sent: the error it returns for an
\* exchange that ended in outcome
GetResponseErr(method, outcome) ==
    IF outcome.kind = "do" THEN TransportErr(method, outcome.cause)
    ELSE IF outcome.kind = "read" THEN ReadErr
    ELSE IF ~Unmarshal(outcome.body).ok THEN DecodeErr
    ELSE IF Unmarshal(outcome.body).resp.Error.Code # 0
         THEN RpcErr(method, Unmarshal(outcome.body).resp.Error.Code)
    ELSE NoErr

\* rpcResponse.Result as getResponse leaves it
GetResponseResult(outcome) ==
    IF outcome.kind = "body" THEN Unmarshal(outcome.body).resp.Result ELSE ""

\* the value a typed method returns: resp.Result, or the zero value on error
TypedResult(method, outcome) ==
    IF GetResponseErr(method, outcome) = NoErr
    THEN GetResponseResult(outcome) ELSE ""

\* the cache-hit test of GetVersion / GetHealth, with an off-by-one bound
FreshInclusive(slot, t) == slot.set /\ t - slot.timestamp <= cacheValidity

\* the cache-hit test of GetVersion / GetHealth, with the comparison inverted
FreshInverted(slot, t) == slot.set /\ t - slot.timestamp > cacheValidity

\* the cache-hit test of GetVersion / GetHealth
Fresh(slot, t) == slot.set /\ t - slot.timestamp < cacheValidity

----------------------------------------------------------------------------
(* State after NewRPCClient: both slots nil, the mutex free, no call begun *)

InitWith(ms, n, t) ==
    /\ now = 0
    /\ ticks = 0
    /\ nreq = 0
    /\ menu = ms
    /\ budget = n
    /\ tickBudget = t
    /\ versionCache = Nil
    /\ healthCache = Nil
    /\ readers = {}
    /\ writer = None
    /\ pc = [p \in Procs |-> "idle"]
    /\ op = [p \in Procs |-> "GetVersion"]
    /\ arg = [p \in Procs |-> NoArg]
    /\ ctxDone = [p \in Procs |-> FALSE]
    /\ calls = 0
    /\ i = [p \in Procs |-> 0]
    /\ retryDelay = [p \in Procs |-> InitialRetryDelay]
    /\ lastErr = [p \in Procs |-> NoErr]
    /\ timerAt = [p \in Procs |-> 0]
    /\ attempts = [p \in Procs |-> 0]
    /\ tcReqs = [p \in Procs |-> 0]
    /\ tcErr = [p \in Procs |-> NoErr]
    /\ tcWaits = [p \in Procs |-> <<>>]
    /\ reqs = [p \in Procs |-> 0]
    /\ wire = [p \in Procs |-> NoWire]
    /\ seen = [p \in Procs |-> Nil]
    /\ readAt = [p \in Procs |-> 0]
    /\ hit = [p \in Procs |-> FALSE]
    /\ val = [p \in Procs |-> ""]
    /\ got = [p \in Procs |-> NoOutcome]
    /\ gotAt = [p \in Procs |-> 0]
    /\ res = [p \in Procs |-> [val |-> "", err |-> NoErr]]

\* who calls what in a run
Only(p, ms) == [q \in Procs |-> IF q = p THEN ms ELSE {}]
Both(ms) == [q \in Procs |-> IF q \in {"g1", "g2"} THEN ms ELSE {}]
Split(ms1, ms2) ==
    [q \in Procs |-> IF q = "g1" THEN ms1 ELSE IF q = "g2" THEN ms2 ELSE {}]
All(ms) == [q \in Procs |-> ms]

\* the runs explored.  The first and the last grow with the bounds; the
\* others have budgets of their own.
Runs ==
    { \* one goroutine reading the cached methods over a whole expiry
      [menu |-> Only("g1", CachedOps), calls |-> MaxCalls, ticks |-> 2],
      \* one goroutine using every method
      [menu |-> Only("g1", Ops), calls |-> 2, ticks |-> 1],
      \* two goroutines on the two cached methods
      [menu |-> Both(CachedOps), calls |-> 2, ticks |-> 0],
      \* three goroutines on one slot
      [menu |-> All({"GetVersion"}), calls |-> 3, ticks |-> 0],
      \* two goroutines on one slot, and a later reader
      [menu |-> Both({"GetVersion"}), calls |-> 3, ticks |-> 1],
      \* the probe beside a reader of its slot
      [menu |-> Split({"TestConnection"}, {"GetVersion"}), calls |-> 2, ticks |-> 0],
      \* the probe alone with the clock free
      [menu |-> Only("g1", {"TestConnection"}), calls |-> 1, ticks |-> MaxTicks] }

Init == \E r \in Runs : InitWith(r.menu, r.calls, r.ticks)

\* the typed method a goroutine is executing (TestConnection runs GetVersion)
Typed(p) == IF op[p] = "TestConnection" THEN "GetVersion" ELSE op[p]

\* the cache slot of a cached method
SlotOf(o) == IF o = "GetVersion" THEN versionCache ELSE healthCache

\* entry of a typed method: fresh locals
EnterTyped(p) ==
    /\ reqs' = [reqs EXCEPT ![p] = 0]
    /\ wire' = [wire EXCEPT ![p] = NoWire]
    /\ seen' = [seen EXCEPT ![p] = Nil]
    /\ readAt' = [readAt EXCEPT ![p] = now]
    /\ hit' = [hit EXCEPT ![p] = FALSE]
    /\ val' = [val EXCEPT ![p] = ""]
    /\ got' = [got EXCEPT ![p] = NoOutcome]
    /\ gotAt' = [gotAt EXCEPT ![p] = 0]

\* a typed method returns (v, e): to the exported caller ("ret"), or to the
\* loop of TestConnection
ReturnTyped(p, v, e) ==
    /\ res' = [res EXCEPT ![p] = [val |-> v, err |-> e]]
    /\ pc' = [pc EXCEPT ![p] = IF op[p] = "TestConnection" THEN "tc_after" ELSE "ret"]

\* the cache update reached whatever getResponse returned
StoresRegardless(o, e) == o \in CachedOps

\* if err := getResponse(...); err != nil { return "", err }: the cached
\* methods go on to the cache update only when getResponse returned nil
ProceedsToStore(o, e) == o \in CachedOps /\ e = NoErr

\* TestConnection returns e
ReturnTC(p, e) ==
    /\ tcErr' = [tcErr EXCEPT ![p] = e]
    /\ pc' = [pc EXCEPT ![p] = "ret"]

----------------------------------------------------------------------------
(* A caller begins an exported call *)

Begin(p, o, a, cancelled) ==
    /\ o \in menu[p]
    /\ pc[p] = "idle"
    /\ calls < budget
    /\ calls' = calls + 1
    /\ op' = [op EXCEPT ![p] = o]
    /\ arg' = [arg EXCEPT ![p] = a]
    /\ ctxDone' = [ctxDone EXCEPT ![p] = cancelled]
    /\ EnterTyped(p)
    \* TestConnection: maxRetries := 3; retryDelay := 2s; var lastErr error; i := 0
    /\ i' = [i EXCEPT ![p] = 0]
    /\ retryDelay' = [retryDelay EXCEPT ![p] = InitialRetryDelay]
    /\ lastErr' = [lastErr EXCEPT ![p] = NoErr]
    /\ pc' = [pc EXCEPT ![p] =
                IF o = "TestConnection" THEN "tc_loop"
                ELSE IF o \in CachedOps THEN "rlock" ELSE "send"]
    /\ UNCHANGED <<now, ticks, nreq, runVars, cacheVars, lockVars, timerAt,
                   attempts, tcReqs, tcWaits, tcErr, res>>

\* the caller has taken what the call returned; the call's frame is gone
Done(p) ==
    /\ pc[p] = "ret"
    /\ pc' = [pc EXCEPT ![p] = "idle"]
    /\ op' = [op EXCEPT ![p] = "GetVersion"]
    /\ arg' = [arg EXCEPT ![p] = NoArg]
    /\ ctxDone' = [ctxDone EXCEPT ![p] = FALSE]
    /\ i' = [i EXCEPT ![p] = 0]
    /\ retryDelay' = [retryDelay EXCEPT ![p] = InitialRetryDelay]
    /\ lastErr' = [lastErr EXCEPT ![p] = NoErr]
    /\ timerAt' = [timerAt EXCEPT ![p] = 0]
    /\ attempts' = [attempts EXCEPT ![p] = 0]
    /\ tcReqs' = [tcReqs EXCEPT ![p] = 0]
    /\ tcErr' = [tcErr EXCEPT ![p] = NoErr]
    /\ tcWaits' = [tcWaits EXCEPT ![p] = <<>>]
    /\ reqs' = [reqs EXCEPT ![p] = 0]
    /\ wire' = [wire EXCEPT ![p] = NoWire]
    /\ seen' = [seen EXCEPT ![p] = Nil]
    /\ readAt' = [readAt EXCEPT ![p] = 0]
    /\ hit' = [hit EXCEPT ![p] = FALSE]
    /\ val' = [val EXCEPT ![p] = ""]
    /\ got' = [got EXCEPT ![p] = NoOutcome]
    /\ gotAt' = [gotAt EXCEPT ![p] = 0]
    /\ res' = [res EXCEPT ![p] = [val |-> "", err |-> NoErr]]
    /\ UNCHANGED <<now, ticks, nreq, runVars, cacheVars, lockVars, calls>>

\* the caller's context is cancelled while its call runs
Cancel(p) ==
    /\ pc[p] \notin {"idle", "ret"}
    /\ ~ctxDone[p]
    /\ ctxDone' = [ctxDone EXCEPT ![p] = TRUE]
    /\ UNCHANGED <<now, ticks, nreq, runVars, cacheVars, lockVars, pc, op, arg, calls,
                   tcVars, invVars, res>>

----------------------------------------------------------------------------
(* GetVersion / GetHealth: the cache check under the shared lock *)

\* c.cacheMutex.RLock(): blocks while a writer holds or awaits the lock
RLock(p) ==
    /\ pc[p] = "rlock"
    /\ writer = None
    /\ readers' = readers \cup {p}
    /\ pc' = [pc EXCEPT ![p] = "check"]
    /\ UNCHANGED <<now, ticks, nreq, runVars, cacheVars, writer, callVars, tcVars, invVars,
                   res>>

\* if c.xCache != nil && time.Since(c.xCache.timestamp) < c.cacheValidity
CacheCheck(p) ==
    /\ pc[p] = "check"
    /\ seen' = [seen EXCEPT ![p] = SlotOf(Typed(p))]
    /\ readAt' = [readAt EXCEPT ![p] = now]
    /\ IF Fresh(SlotOf(Typed(p)), now)
       THEN /\ val' = [val EXCEPT ![p] = SlotOf(Typed(p)).value]
            /\ hit' = [hit EXCEPT ![p] = TRUE]
            /\ pc' = [pc EXCEPT ![p] = "hit"]
       ELSE /\ UNCHANGED <<val, hit>>
            /\ pc' = [pc EXCEPT ![p] = "miss"]
    /\ UNCHANGED <<now, ticks, nreq, runVars, cacheVars, lockVars, callVars, tcVars,
                   reqs, wire, got, gotAt, res>>

\* hit: return version, nil without the RUnlock
HitKeepsRLock(p) ==
    /\ pc[p] = "hit"
    /\ ReturnTyped(p, val[p], NoErr)
    /\ UNCHANGED <<now, ticks, nreq, runVars, cacheVars, lockVars, callVars, tcVars,
                   invVars>>

\* hit: c.cacheMutex.RUnlock(); return version, nil
RUnlockHit(p) ==
    /\ pc[p] = "hit"
    /\ readers' = readers \ {p}
    /\ ReturnTyped(p, val[p], NoErr)
    /\ UNCHANGED <<now, ticks, nreq, runVars, cacheVars, writer, callVars, tcVars, invVars>>

\* miss: on to getResponse with the shared lock still held
MissKeepsRLock(p) ==
    /\ pc[p] = "miss"
    /\ pc' = [pc EXCEPT ![p] = "send"]
    /\ UNCHANGED <<now, ticks, nreq, runVars, cacheVars, lockVars, callVars, tcVars,
                   invVars, res>>

\* miss: c.cacheMutex.RUnlock(), then on to getResponse
RUnlockMiss(p) ==
    /\ pc[p] = "miss"
    /\ readers' = readers \ {p}
    /\ pc' = [pc EXCEPT ![p] = "send"]
    /\ UNCHANGED <<now, ticks, nreq, runVars, cacheVars, writer, callVars, tcVars, invVars,
                   res>>

----------------------------------------------------------------------------
(* getResponse: one HTTP exchange *)

\* what the exchange can end in once HttpClient.Do has the request: with the
\* context already done Do fails at once; a context done in flight may or
\* may not beat the response
Outcomes(aborted, done) ==
    IF aborted THEN {DoFailed("context canceled")}
    ELSE {DoFailed("network"), ReadFailed} \cup {GotBody(b) : b \in Bodies}
         \cup ErrorReplies
         \cup (IF done THEN {DoFailed("context canceled")} ELSE {})

\* request built and marshalled, http.NewRequestWithContext, HttpClient.Do
Send(p) ==
    /\ pc[p] = "send"
    /\ wire' = [wire EXCEPT ![p] =
                  Marshal(Request(MethodName(Typed(p)), ParamsOf(Typed(p), arg[p])))]
    /\ reqs' = [reqs EXCEPT ![p] = @ + 1]
    /\ nreq' = nreq + 1
    /\ pc' = [pc EXCEPT ![p] = IF ctxDone[p] THEN "aborted" ELSE "inflight"]
    /\ UNCHANGED <<now, ticks, runVars, cacheVars, lockVars, callVars, tcVars, seen,
                   readAt, hit, val, got, gotAt, res>>

\* the exchange ends, and a failed one drops the cached value
ReceiveClearsOnFailure(p, outcome) ==
    /\ pc[p] \in {"inflight", "aborted"}
    /\ outcome \in Outcomes(pc[p] = "aborted", ctxDone[p])
    /\ got' = [got EXCEPT ![p] = outcome]
    /\ gotAt' = [gotAt EXCEPT ![p] = now]
    /\ val' = [val EXCEPT ![p] = GetResponseResult(outcome)]
    /\ IF ProceedsToStore(Typed(p), GetResponseErr(wire[p].method, outcome))
       THEN /\ pc' = [pc EXCEPT ![p] = "lock"]
            /\ res' = [res EXCEPT ![p] =
                         [val |-> "", err |-> GetResponseErr(wire[p].method, outcome)]]
            /\ UNCHANGED cacheVars
       ELSE /\ ReturnTyped(p, TypedResult(wire[p].method, outcome),
                           GetResponseErr(wire[p].method, outcome))
            /\ versionCache' = IF Typed(p) = "GetVersion" THEN Nil ELSE versionCache
            /\ healthCache' = IF Typed(p) = "GetHealth" THEN Nil ELSE healthCache
    /\ UNCHANGED <<now, ticks, nreq, runVars, lockVars, callVars, tcVars,
                   reqs, wire, seen, readAt, hit>>

\* the exchange ends, and a failed one is sent once more
ReceiveRetries(p, outcome) ==
    /\ pc[p] \in {"inflight", "aborted"}
    /\ outcome \in Outcomes(pc[p] = "aborted", ctxDone[p])
    /\ got' = [got EXCEPT ![p] = outcome]
    /\ gotAt' = [gotAt EXCEPT ![p] = now]
    /\ val' = [val EXCEPT ![p] = GetResponseResult(outcome)]
    /\ IF GetResponseErr(wire[p].method, outcome) # NoErr /\ reqs[p] < 2
       THEN /\ pc' = [pc EXCEPT ![p] = "send"]
            /\ UNCHANGED res
       ELSE IF ProceedsToStore(Typed(p), GetResponseErr(wire[p].method, outcome))
       THEN /\ pc' = [pc EXCEPT ![p] = "lock"]
            /\ res' = [res EXCEPT ![p] =
                         [val |-> "", err |-> GetResponseErr(wire[p].method, outcome)]]
       ELSE ReturnTyped(p, TypedResult(wire[p].method, outcome),
                        GetResponseErr(wire[p].method, outcome))
    /\ UNCHANGED <<now, ticks, nreq, runVars, cacheVars, lockVars, callVars, tcVars,
                   reqs, wire, seen, readAt, hit>>

\* the exchange ends; getResponse returns err; the typed method returns its
\* zero value and err, or goes on with resp.Result
Receive(p, outcome) ==
    /\ pc[p] \in {"inflight", "aborted"}
    /\ outcome \in Outcomes(pc[p] = "aborted", ctxDone[p])
    /\ got' = [got EXCEPT ![p] = outcome]
    /\ gotAt' = [gotAt EXCEPT ![p] = now]
    /\ val' = [val EXCEPT ![p] = GetResponseResult(outcome)]
    /\ IF ProceedsToStore(Typed(p), GetResponseErr(wire[p].method, outcome))
       THEN /\ pc' = [pc EXCEPT ![p] = "lock"]
            /\ res' = [res EXCEPT ![p] =
                         [val |-> "", err |-> GetResponseErr(wire[p].method, outcome)]]
       ELSE ReturnTyped(p, TypedResult(wire[p].method, outcome),
                        GetResponseErr(wire[p].method, outcome))
    /\ UNCHANGED <<now, ticks, nreq, runVars, cacheVars, lockVars, callVars, tcVars,
                   reqs, wire, seen, readAt, hit>>

----------------------------------------------------------------------------
(* GetVersion / GetHealth: the cache update under the exclusive lock *)

\* a Lock() that lets the caller through whoever is inside
LockUnguarded(p) ==
    /\ pc[p] = "lock"
    /\ writer' = p
    /\ pc' = [pc EXCEPT ![p] = "store"]
    /\ UNCHANGED <<now, ticks, nreq, runVars, cacheVars, readers, callVars, tcVars, invVars,
                   res>>

\* c.cacheMutex.Lock(): the caller becomes the one writer; from then on no
\* new reader gets in, and the writer waits for the readers inside to leave
Lock(p) ==
    /\ pc[p] = "lock"
    /\ writer = None
    /\ writer' = p
    /\ pc' = [pc EXCEPT ![p] = IF readers = {} THEN "store" ELSE "lockwait"]
    /\ UNCHANGED <<now, ticks, nreq, runVars, cacheVars, readers, callVars, tcVars, invVars,
                   res>>

\* c.cacheMutex.Lock() returns: the last reader has left
LockAcquired(p) ==
    /\ pc[p] = "lockwait"
    /\ readers = {}
    /\ pc' = [pc EXCEPT ![p] = "store"]
    /\ UNCHANGED <<now, ticks, nreq, runVars, cacheVars, lockVars, callVars, tcVars,
                   invVars, res>>

\* a store stamped with the instant the call looked at the cache
StoreStampsRead(p) ==
    /\ pc[p] = "store"
    /\ IF Typed(p) = "GetVersion"
       THEN /\ versionCache' = cachedValue(val[p], readAt[p])
            /\ UNCHANGED healthCache
       ELSE /\ healthCache' = cachedValue(val[p], readAt[p])
            /\ UNCHANGED versionCache
    /\ pc' = [pc EXCEPT ![p] = "unlock"]
    /\ UNCHANGED <<now, ticks, nreq, runVars, lockVars, callVars, tcVars, invVars, res>>

\* the store of GetVersion, copied unchanged into GetHealth
StoreIntoVersionSlot(p) ==
    /\ pc[p] = "store"
    /\ versionCache' = cachedValue(val[p], now)
    /\ UNCHANGED healthCache
    /\ pc' = [pc EXCEPT ![p] = "unlock"]
    /\ UNCHANGED <<now, ticks, nreq, runVars, lockVars, callVars, tcVars, invVars, res>>

\* a store that is skipped when another caller has refreshed the slot
StoreUnlessFresh(p) ==
    /\ pc[p] = "store"
    /\ IF Fresh(SlotOf(Typed(p)), now)
       THEN UNCHANGED cacheVars
       ELSE IF Typed(p) = "GetVersion"
       THEN /\ versionCache' = cachedValue(val[p], now)
            /\ UNCHANGED healthCache
       ELSE /\ healthCache' = cachedValue(val[p], now)
            /\ UNCHANGED versionCache
    /\ pc' = [pc EXCEPT ![p] = "unlock"]
    /\ UNCHANGED <<now, ticks, nreq, runVars, lockVars, callVars, tcVars, invVars, res>>

\* c.xCache = &cachedValue[string]{value: resp.Result, timestamp: time.Now()}
Store(p) ==
    /\ pc[p] = "store"
    /\ IF Typed(p) = "GetVersion"
       THEN /\ versionCache' = cachedValue(val[p], now)
            /\ UNCHANGED healthCache
       ELSE /\ healthCache' = cachedValue(val[p], now)
            /\ UNCHANGED versionCache
    /\ pc' = [pc EXCEPT ![p] = "unlock"]
    /\ UNCHANGED <<now, ticks, nreq, runVars, lockVars, callVars, tcVars, invVars, res>>

\* c.cacheMutex.Unlock(); return resp.Result, nil
Unlock(p) ==
    /\ pc[p] = "unlock"
    /\ writer' = None
    /\ ReturnTyped(p, val[p], NoErr)
    /\ UNCHANGED <<now, ticks, nreq, runVars, cacheVars, readers, callVars, tcVars, invVars>>

----------------------------------------------------------------------------
(* TestConnection *)

\* the loop condition, off by one
LoopContinuesInclusive(k) == k <= maxRetries

\* for i := 0; i < maxRetries; i++
LoopContinues(k) == k < maxRetries

\* the guard of the backoff wait, without the exemption of the last attempt
SleepsAfterEvery(k) == k < maxRetries

\* if i < maxRetries-1 { // Don't sleep after the last attempt
SleepsAfter(k) == k < maxRetries - 1

\* an attempt that goes to the node without looking at the cache
TCAttemptBypassesCache(p) ==
    /\ pc[p] = "tc_loop"
    /\ LoopContinues(i[p])
    /\ EnterTyped(p)
    /\ attempts' = [attempts EXCEPT ![p] = @ + 1]
    /\ pc' = [pc EXCEPT ![p] = "send"]
    /\ UNCHANGED <<now, ticks, nreq, runVars, cacheVars, lockVars, callVars, i,
                   retryDelay, lastErr, timerAt, tcReqs, tcWaits, tcErr, res>>

\* for ... { _, err := c.GetVersion(ctx)
TCAttempt(p) ==
    /\ pc[p] = "tc_loop"
    /\ LoopContinues(i[p])
    /\ EnterTyped(p)
    /\ attempts' = [attempts EXCEPT ![p] = @ + 1]
    /\ pc' = [pc EXCEPT ![p] = "rlock"]
    /\ UNCHANGED <<now, ticks, nreq, runVars, cacheVars, lockVars, callVars, i,
                   retryDelay, lastErr, timerAt, tcReqs, tcWaits, tcErr, res>>

\* the loop ends: return fmt.Errorf("failed to connect after %d attempts: %w", ...)
TCExhausted(p) ==
    /\ pc[p] = "tc_loop"
    /\ ~LoopContinues(i[p])
    /\ ReturnTC(p, ExhaustedErr(maxRetries, lastErr[p]))
    /\ UNCHANGED <<now, ticks, nreq, runVars, cacheVars, lockVars, callVars, i,
                   retryDelay, lastErr, timerAt, attempts, tcReqs, tcWaits,
                   invVars, res>>

\* a success that returns the error recorded for an earlier attempt
TCSuccessReturnsLastErr(p) ==
    /\ pc[p] = "tc_after"
    /\ res[p].err = NoErr
    /\ tcReqs' = [tcReqs EXCEPT ![p] = @ + reqs[p]]
    /\ ReturnTC(p, lastErr[p])
    /\ UNCHANGED <<now, ticks, nreq, runVars, cacheVars, lockVars, callVars, i,
                   retryDelay, lastErr, timerAt, attempts, tcWaits, invVars, res>>

\* if err == nil { return nil }
TCSuccess(p) ==
    /\ pc[p] = "tc_after"
    /\ res[p].err = NoErr
    /\ tcReqs' = [tcReqs EXCEPT ![p] = @ + reqs[p]]
    /\ ReturnTC(p, NoErr)
    /\ UNCHANGED <<now, ticks, nreq, runVars, cacheVars, lockVars, callVars, i,
                   retryDelay, lastErr, timerAt, attempts, tcWaits, invVars, res>>

\* lastErr = err; if i < maxRetries-1 { select { ... time.After(retryDelay) } }
TCFailed(p) ==
    /\ pc[p] = "tc_after"
    /\ res[p].err # NoErr
    /\ lastErr' = [lastErr EXCEPT ![p] = res[p].err]
    /\ tcReqs' = [tcReqs EXCEPT ![p] = @ + reqs[p]]
    /\ IF SleepsAfter(i[p])
       THEN /\ timerAt' = [timerAt EXCEPT ![p] = now + retryDelay[p]]
            /\ tcWaits' = [tcWaits EXCEPT ![p] = Append(@, retryDelay[p])]
            /\ pc' = [pc EXCEPT ![p] = "tc_wait"]
            /\ UNCHANGED i
       ELSE /\ i' = [i EXCEPT ![p] = @ + 1]
            /\ pc' = [pc EXCEPT ![p] = "tc_loop"]
            /\ UNCHANGED <<timerAt, tcWaits>>
    /\ UNCHANGED <<now, ticks, nreq, runVars, cacheVars, lockVars, callVars, retryDelay,
                   attempts, tcErr, invVars, res>>

\* a cancelled wait that returns the error of the attempt before it
WaitCancelledReturnsLastErr(p) ==
    /\ pc[p] = "tc_wait"
    /\ ctxDone[p]
    /\ ReturnTC(p, lastErr[p])
    /\ UNCHANGED <<now, ticks, nreq, runVars, cacheVars, lockVars, callVars, i,
                   retryDelay, lastErr, timerAt, attempts, tcReqs, tcWaits,
                   invVars, res>>

\* case <-ctx.Done(): return ctx.Err()
WaitCancelled(p) ==
    /\ pc[p] = "tc_wait"
    /\ ctxDone[p]
    /\ ReturnTC(p, CtxErr)
    /\ UNCHANGED <<now, ticks, nreq, runVars, cacheVars, lockVars, callVars, i,
                   retryDelay, lastErr, timerAt, attempts, tcReqs, tcWaits,
                   invVars, res>>

\* case <-time.After(retryDelay): retryDelay *= 2, then i++
WaitElapsed(p) ==
    /\ pc[p] = "tc_wait"
    /\ now >= timerAt[p]
    /\ retryDelay' = [retryDelay EXCEPT ![p] = @ * 2]
    /\ i' = [i EXCEPT ![p] = @ + 1]
    /\ pc' = [pc EXCEPT ![p] = "tc_loop"]
    /\ UNCHANGED <<now, ticks, nreq, runVars, cacheVars, lockVars, callVars, lastErr,
                   timerAt, attempts, tcReqs, tcWaits, tcErr, invVars, res>>

----------------------------------------------------------------------------
(* The clock.  A goroutine blocked in the select of the backoff wait is     *)
(* woken as soon as one of its channels is ready: time does not pass over   *)
(* a closed ctx.Done() or over the expiry of the timer.                     *)

\* the goroutines blocked in the select with neither channel ready yet
Waiting == {p \in Procs : pc[p] = "tc_wait"}

\* no blocked select has a ready channel that an advance by d would pass over
NoWakeupWithin(d) ==
    \A p \in Waiting : ~ctxDone[p] /\ now + d <= timerAt[p]

\* time passes by d
Tick(d) ==
    /\ ticks < tickBudget
    /\ NoWakeupWithin(d)
    /\ now' = now + d
    /\ ticks' = ticks + 1
    /\ UNCHANGED <<nreq, runVars, cacheVars, lockVars, pc, callVars, tcVars,
                   invVars, res>>

\* time passes until the earliest pending backoff timer expires
TimerTick ==
    /\ \E p \in Waiting : now < timerAt[p]
    /\ \E p \in Waiting :
          /\ \A q \in Waiting : timerAt[p] <= timerAt[q]
          /\ NoWakeupWithin(timerAt[p] - now)
          /\ now' = timerAt[p]
    /\ UNCHANGED <<ticks, nreq, runVars, cacheVars, lockVars, pc, callVars, tcVars,
                   invVars, res>>

Step(p) ==
    \/ \E o \in Ops : \E a \in ArgsOf(o) : \E c \in BOOLEAN : Begin(p, o, a, c)
    \/ Done(p)
    \/ Cancel(p)
    \/ RLock(p)
    \/ CacheCheck(p)
    \/ RUnlockHit(p)
    \/ RUnlockMiss(p)
    \/ Send(p)
    \/ \E outcome \in Outcomes(FALSE, TRUE) : Receive(p, outcome)
    \/ Lock(p)
    \/ LockAcquired(p)
    \/ Store(p)
    \/ Unlock(p)
    \/ TCAttempt(p)
    \/ TCExhausted(p)
    \/ TCSuccess(p)
    \/ TCFailed(p)
    \/ WaitCancelled(p)
    \/ WaitElapsed(p)

Next ==
    \/ \E p \in Procs : Step(p)
    \/ \E d \in TickSteps : Tick(d)
    \/ TimerTick

Spec == Init /\ [][Next]_vars

\* the steps of the code of a goroutine inside a call: everything but the
\* caller's own moves (beginning a call, cancelling its context, dropping
\* the returned frame).  The exchange ending is one of them: HttpClient has
\* a timeout, so Do returns.
Running(p) ==
    \/ RLock(p)
    \/ CacheCheck(p)
    \/ RUnlockHit(p)
    \/ RUnlockMiss(p)
    \/ Send(p)
    \/ \E outcome \in Outcomes(FALSE, TRUE) : Receive(p, outcome)
    \/ Lock(p)
    \/ LockAcquired(p)
    \/ Store(p)
    \/ Unlock(p)
    \/ TCAttempt(p)
    \/ TCExhausted(p)
    \/ TCSuccess(p)
    \/ TCFailed(p)
    \/ WaitCancelled(p)
    \/ WaitElapsed(p)

\* the runs with a probe in them
ProbeRuns == {r \in Runs : \E p \in Procs : "TestConnection" \in r.menu[p]}

FairInit == \E r \in ProbeRuns : InitWith(r.menu, r.calls, r.ticks)

\* a runnable goroutine is scheduled, and a pending timer fires
FairSpec ==
    /\ FairInit
    /\ [][Next]_vars
    /\ \A p \in Procs : WF_vars(Running(p))
    /\ WF_vars(TimerTick)

----------------------------------------------------------------------------
(* Properties *)

\* a typed method has returned to its caller and its frame is still there
TypedDone(p) == pc[p] \in {"ret", "tc_after"}

\* the goroutine is inside GetVersion or GetHealth, or has just returned
InCached(p) == pc[p] # "idle" /\ Typed(p) \in CachedOps

\* the slot a goroutine read under the shared lock was set and younger than
\* the ttl at the instant of the read
ReadFresh(p) ==
    /\ seen[p].set
    /\ readAt[p] - seen[p].timestamp < cacheValidity

\* C1: a call of GetVersion or GetHealth returns a value without a network
\* call only if the slot it read under the shared lock was non-empty and
\* younger than the ttl at that instant; an empty slot or one of age >= ttl
\* is never served.  The slot is read while the shared lock is held, so what
\* was read is what the slot holds at that moment.
C1_ServedOnlyIfFresh ==
    \A p \in Procs :
        /\ (pc[p] \in {"hit", "miss"}) =>
              /\ p \in readers
              /\ \A q \in Procs : pc[q] \notin {"store", "unlock"}
              /\ seen[p] = SlotOf(Typed(p))
        /\ (InCached(p) /\ hit[p]) =>
              (ReadFresh(p) /\ val[p] = seen[p].value)
        /\ (InCached(p) /\ TypedDone(p) /\ res[p].err = NoErr /\ reqs[p] = 0) =>
              (ReadFresh(p) /\ res[p].val = seen[p].value)
        /\ (InCached(p) /\ pc[p] \notin {"rlock", "check"} /\ ~ReadFresh(p)) =>
              (~hit[p] /\ (TypedDone(p) => reqs[p] = 1))

\* C1 witness: a call served from a slot stored earlier, while another
\* goroutine is in the middle of its own call
C1_Witness ==
    \E p \in Procs : \E q \in Procs \ {p} :
        /\ pc[p] = "ret"
        /\ op[p] \in CachedOps
        /\ hit[p]
        /\ reqs[p] = 0
        /\ readAt[p] > seen[p].timestamp
        /\ pc[q] \in {"inflight", "lock", "store"}

\* C2: a read of a cached method at an instant t with t0 <= t < t0 + ttl,
\* t0 being the instant the slot's value was stored, returns that value
\* with no HTTP request; a read at t >= t0 + ttl, or of an empty slot,
\* issues exactly one HTTP request.
C2_Freshness ==
    \A p \in Procs :
        (InCached(p) /\ TypedDone(p)) =>
            IF seen[p].set /\ seen[p].timestamp <= readAt[p]
                           /\ readAt[p] < seen[p].timestamp + cacheValidity
            THEN /\ reqs[p] = 0
                 /\ res[p] = [val |-> seen[p].value, err |-> NoErr]
            ELSE reqs[p] = 1

\* C2 witness: one goroutine has called GetHealth three times; the first
\* stored the slot, the second found it fresh, the third, 61 s after the
\* store, issues the second HTTP request of the run
C2_Witness ==
    /\ menu["g2"] = {}
    /\ pc["g1"] = "ret"
    /\ op["g1"] = "GetHealth"
    /\ calls = 3
    /\ versionCache = Nil
    /\ seen["g1"].set
    /\ readAt["g1"] = seen["g1"].timestamp + 61
    /\ reqs["g1"] = 1
    /\ nreq = 2

\* an exchange that makes getResponse fail: transport error, cancellation,
\* unreadable or undecodable body, or an RPC error with a non-zero code
Failure(outcome) ==
    \/ outcome.kind \in {"do", "read"}
    \/ /\ outcome.kind = "body"
       /\ \/ ~outcome.body.json
          \/ outcome.body.hasError /\ outcome.body.code # 0

\* goroutine p takes the step in which its HTTP exchange ends
ExchangeEnds(p) == pc[p] \in {"inflight", "aborted"} /\ pc'[p] # pc[p]

\* no other goroutine ever calls the client in this run
Alone(p) == \A q \in Procs \ {p} : menu[q] = {}

\* C3 as stated: when a refresh by GetVersion or GetHealth fails, the slot
\* holds at the return exactly what the call found in it.
C3_SlotAsBeforeCall ==
    [][\A p \in Procs :
          (InCached(p) /\ ExchangeEnds(p) /\ Failure(got'[p])) =>
              SlotOf(Typed(p))' = seen[p]]_vars

\* C3 amended: when a refresh by GetVersion or GetHealth fails, the call
\* returns the error with the zero value and itself stores nothing: the step
\* leaves both slots as they are, a slot only ever changes in the store step
\* of a call whose exchange succeeded, and with no concurrent caller the slot
\* at the return is exactly the one the call found (a stale value is kept, an
\* empty slot stays empty; a malformed body gives the decode error).
C3_FailedRefreshStoresNothing ==
    /\ [][\A p \in Procs :
             (InCached(p) /\ ExchangeEnds(p) /\ Failure(got'[p])) =>
                 /\ pc'[p] \in {"ret", "tc_after"}
                 /\ res'[p].err # NoErr
                 /\ res'[p].val = ""
                 /\ got'[p] = GotBody(Malformed) => res'[p].err = DecodeErr
                 /\ cacheVars' = cacheVars]_vars
    /\ [][cacheVars' # cacheVars =>
             \E q \in Procs :
                 /\ pc[q] = "store"
                 /\ writer = q
                 /\ ~Failure(got[q])
                 /\ SlotOf(Typed(q))' = cachedValue(got[q].body.result, now)]_vars
    /\ [](\A p \in Procs :
             (InCached(p) /\ TypedDone(p) /\ reqs[p] = 1 /\ Failure(got[p])) =>
                 /\ res[p].err # NoErr
                 /\ Alone(p) => SlotOf(Typed(p)) = seen[p])

\* C3 witness: a refresh of a stale slot got a malformed body; the call has
\* returned the decode error and the stale value is still in the slot
C3_Witness ==
    \E p \in Procs :
        /\ pc[p] = "ret"
        /\ op[p] \in CachedOps
        /\ got[p] = GotBody(Malformed)
        /\ res[p] = [val |-> "", err |-> DecodeErr]
        /\ seen[p].set
        /\ readAt[p] - seen[p].timestamp >= cacheValidity
        /\ SlotOf(op[p]) = seen[p]

\* the JSON-RPC method name the interface declares for each typed method
Declared ==
    [GetBlockTime |-> "getBlockTime", GetEpochInfo |-> "getEpochInfo",
     GetVersion |-> "getVersion", GetHealth |-> "getHealth",
     GetMinimumLedgerSlot |-> "minimumLedgerSlot",
     GetFirstAvailableBlock |-> "getFirstAvailableBlock"]

\* the exchange of p ended with a decoded body whose error.code is not 0
GotRpcError(p) ==
    /\ pc[p] # "idle"
    /\ got[p].kind = "body"
    /\ got[p].body.json
    /\ got[p].body.hasError
    /\ got[p].body.code # 0

\* C4: for every typed method, a decoded response with error.code # 0 is
\* returned as a failure that carries the invoked method's name and the
\* code, with the zero value as result, also when the response has a
\* non-empty result; the call never reaches the cache update, and the
\* result of such a response is in no slot.
C4_ErrorPrecedence ==
    \A p \in Procs :
        GotRpcError(p) =>
            /\ pc[p] \notin {"inflight", "aborted", "lock", "lockwait", "store", "unlock"}
            /\ TypedDone(p) =>
                  res[p] = [val |-> "",
                            err |-> [kind |-> "rpc",
                                     method |-> Declared[Typed(p)],
                                     code |-> got[p].body.code]]
            /\ (Alone(p) /\ TypedDone(p) /\ Typed(p) \in CachedOps) =>
                  SlotOf(Typed(p)) = seen[p]

\* C4 witness: GetHealth got a body with result "r1" and error code -32005
\* and has returned the RPC error; the slot is still empty
C4_Witness ==
    \E p \in Procs :
        /\ pc[p] = "ret"
        /\ op[p] = "GetHealth"
        /\ GotRpcError(p)
        /\ got[p].body.hasResult
        /\ got[p].body.result = "r1"
        /\ res[p].err = [kind |-> "rpc", method |-> "getHealth", code |-> -32005]
        /\ healthCache = Nil

\* the exported call of p is TestConnection and has returned
ProbeDone(p) == pc[p] = "ret" /\ op[p] = "TestConnection"

\* C5: when every attempt of TestConnection fails and the context is never
\* cancelled, the probe has made exactly 3 attempts, has waited exactly
\* twice, for 2 s and then 4 s, never after the third attempt, and returns
\* the error that reports 3 attempts and wraps the error of the third
\* attempt.
C5_Backoff ==
    \A p \in Procs :
        /\ (ProbeDone(p) /\ ~ctxDone[p] /\ tcErr[p] # NoErr) =>
              /\ attempts[p] = 3
              /\ tcWaits[p] = <<2, 4>>
              /\ res[p].err # NoErr
              /\ tcErr[p] = [kind |-> "failed to connect", attempts |-> 3,
                             wrapped |-> res[p].err]
        /\ (op[p] = "TestConnection" /\ pc[p] = "tc_wait") =>
              /\ attempts[p] \in {1, 2}
              /\ Len(tcWaits[p]) = attempts[p]
              /\ timerAt[p] - tcWaits[p][attempts[p]] <= now
        /\ (op[p] = "TestConnection" /\ attempts[p] = 3) => Len(tcWaits[p]) = 2

\* C5 witness: three failed attempts, the first a transport error and the
\* third an RPC error, which is the one wrapped; 6 s have passed in waits
C5_Witness ==
    \E p \in Procs :
        /\ ProbeDone(p)
        /\ ~ctxDone[p]
        /\ attempts[p] = 3
        /\ tcReqs[p] = 3
        /\ tcWaits[p] = <<2, 4>>
        /\ now >= 6
        /\ res[p].err.kind = "rpc"
        /\ tcErr[p].kind = "failed to connect"
        /\ tcErr[p].wrapped = res[p].err

\* goroutine p leaves the select of the backoff wait
LeavesWait(p) == pc[p] = "tc_wait" /\ pc'[p] # "tc_wait"

\* C6 as stated: a probe whose context is done while it is suspended in a
\* backoff wait leaves the wait by returning the cancellation error, with no
\* further attempt, whether or not the timer has expired as well.
C6_CancelAlwaysAborts ==
    [][\A p \in Procs :
          (LeavesWait(p) /\ ctxDone[p]) =>
              /\ pc'[p] = "ret"
              /\ tcErr'[p] = CtxErr
              /\ attempts'[p] = attempts[p]]_vars

\* C6 amended: a probe whose context is done while it is suspended in a
\* backoff wait whose timer has not yet expired leaves the wait at that
\* instant by returning the cancellation error, with no further attempt; a
\* probe that returned the cancellation error did so after attempt 1 or 2,
\* and the error is neither the attempt's error nor the 'failed to connect'
\* error.  With the timer expired too, the select may take either branch.
C6_CancelBeforeExpiryAborts ==
    /\ [][\A p \in Procs :
             (LeavesWait(p) /\ ctxDone[p] /\ now < timerAt[p]) =>
                 /\ pc'[p] = "ret"
                 /\ tcErr'[p] = CtxErr
                 /\ attempts'[p] = attempts[p]
                 /\ tcReqs'[p] = tcReqs[p]
                 /\ now' = now]_vars
    /\ [][(\E p \in Procs : pc[p] = "tc_wait" /\ ctxDone[p]) => now' = now]_vars
    /\ [](\A p \in Procs :
             (ProbeDone(p) /\ tcErr[p] = CtxErr) =>
                 /\ ctxDone[p]
                 /\ attempts[p] \in {1, 2}
                 /\ Len(tcWaits[p]) = attempts[p]
                 /\ tcErr[p] # res[p].err
                 /\ tcErr[p].kind # "failed to connect")

\* C6 witness: the second attempt failed with an RPC error, the context was
\* cancelled during the second wait, before the 4 s were over, and the
\* probe has returned the cancellation error
C6_Witness ==
    \E p \in Procs :
        /\ ProbeDone(p)
        /\ tcErr[p] = CtxErr
        /\ attempts[p] = 2
        /\ tcWaits[p] = <<2, 4>>
        /\ lastErr[p].kind = "rpc"
        /\ now < timerAt[p]

\* C7: when the version fetch of attempt k succeeds, TestConnection returns
\* nil in its next step: no attempt k+1, no wait after the success (k-1
\* waits in all), whatever errors attempts 1..k-1 recorded.
C7_SuccessReturnsImmediately ==
    /\ [][\A p \in Procs :
             (pc[p] = "tc_after" /\ res[p].err = NoErr /\ pc'[p] # pc[p]) =>
                 /\ pc'[p] = "ret"
                 /\ tcErr'[p] = NoErr
                 /\ attempts'[p] = attempts[p]
                 /\ tcWaits'[p] = tcWaits[p]
                 /\ now' = now]_vars
    /\ [](\A p \in Procs :
             (ProbeDone(p) /\ res[p].err = NoErr) =>
                 /\ tcErr[p] = NoErr
                 /\ attempts[p] \in 1..3
                 /\ Len(tcWaits[p]) = attempts[p] - 1
                 /\ i[p] = attempts[p] - 1)

\* C7 witness: attempts 1 and 2 failed, attempt 3 fetched the version and
\* the probe has returned nil
C7_Witness ==
    \E p \in Procs :
        /\ ProbeDone(p)
        /\ tcErr[p] = NoErr
        /\ res[p].err = NoErr
        /\ attempts[p] = 3
        /\ lastErr[p] # NoErr
        /\ tcWaits[p] = <<2, 4>>

\* goroutine p is inside a call of TestConnection
InProbe(p) == op[p] = "TestConnection" /\ pc[p] \notin {"idle", "ret"}

\* C8: every call of TestConnection returns, with nil, the cancellation
\* error or the error wrapping the last failure after 3 attempts, and at no
\* point has it made more than 3 version fetches (hence at most 3 HTTP
\* requests) or more than 2 backoff waits, whatever the attempts' outcomes
\* and whenever the context is cancelled.  A run makes finitely many calls,
\* so that every probe returns means: from some point on none is in progress.
C8_RetryTerminates ==
    /\ [](\A p \in Procs :
             (op[p] = "TestConnection" /\ pc[p] # "idle") =>
                 /\ attempts[p] <= 3
                 /\ tcReqs[p] <= attempts[p]
                 /\ reqs[p] <= 1
                 /\ Len(tcWaits[p]) <= 2
                 /\ i[p] <= 3)
    /\ [](\A p \in Procs :
             ProbeDone(p) =>
                 \/ tcErr[p] = NoErr
                 \/ tcErr[p] = CtxErr
                 \/ /\ tcErr[p].kind = "failed to connect"
                    /\ tcErr[p].attempts = 3
                    /\ attempts[p] = 3)
    /\ <>[](\A p \in Procs : ~InProbe(p))

\* C8 witness: a probe whose context was cancelled on the way has ended
\* after its third attempt, beside a goroutine that is reading the slot
C8_Witness ==
    \E p \in Procs : \E q \in Procs \ {p} :
        /\ ProbeDone(p)
        /\ ctxDone[p]
        /\ attempts[p] = 3
        /\ Len(tcWaits[p]) = 2
        /\ tcErr[p].kind = "failed to connect"
        /\ pc[q] # "idle"

DeclaredParams(p) ==
    CASE op[p] = "GetBlockTime" -> <<[int64 |-> arg[p].slot]>>
      [] op[p] = "GetEpochInfo" -> <<[commitment |-> arg[p].commitment]>>
      [] OTHER -> <<>>

\* C10: every request on the wire has jsonrpc "2.0", id 1, the method name
\* declared for the typed method and its declared parameter list, the
\* caller's arguments passed through as given.
C10_RequestShape ==
    \A p \in Procs :
        (pc[p] # "idle" /\ wire[p] # NoWire) =>
            /\ DOMAIN wire[p] = {"jsonrpc", "id", "method", "params"}
            /\ wire[p].jsonrpc = "2.0"
            /\ wire[p].id = 1
            /\ wire[p].method = Declared[Typed(p)]
            /\ wire[p].params = DeclaredParams(p)

\* C10 witness: the request of GetBlockTime for slot -1 is in flight
C10_Witness ==
    \E p \in Procs :
        /\ pc[p] = "inflight"
        /\ op[p] = "GetBlockTime"
        /\ arg[p] = [slot |-> -1]
        /\ wire[p] = [jsonrpc |-> "2.0", id |-> 1, method |-> "getBlockTime",
                      params |-> <<[int64 |-> -1]>>]

\* the program points of a cached method: inside the shared lock, past the
\* writers' gate of Lock(), inside the exclusive lock, in the HTTP exchange
InShared == {"check", "hit", "miss"}
PastGate == {"lockwait", "store", "unlock"}
InExclusive == {"store", "unlock"}
InExchange == {"send", "inflight", "aborted"}

\* C11: no caller holds the cache lock, shared or exclusive, while its
\* network call is in flight: the shared lock is held exactly from RLock to
\* the RUnlock of the hit or miss branch, the exclusive lock is taken only
\* after the exchange has ended with a response, and the store made under it
\* is {resp.Result, now}.  So a caller at RLock is held up only by a caller
\* that is storing or is about to, never by one whose request is in flight.
C11_LockDiscipline ==
    /\ [](\A p \in Procs :
             /\ pc[p] \in InExchange => (p \notin readers /\ writer # p)
             /\ p \in readers <=> pc[p] \in InShared
             /\ writer = p <=> pc[p] \in PastGate
             /\ pc[p] \in InExclusive => readers = {}
             /\ pc[p] \in PastGate \cup {"lock"} =>
                   (reqs[p] = 1 /\ got[p].kind = "body" /\ wire[p] # NoWire)
             /\ (pc[p] = "rlock" /\ \A q \in Procs : pc[q] \notin PastGate) =>
                   writer = None)
    /\ [][\A p \in Procs :
             (pc[p] = "store" /\ pc'[p] # "store") =>
                 /\ pc'[p] = "unlock"
                 /\ writer = p
                 /\ SlotOf(Typed(p))' = cachedValue(val[p], now)]_vars

\* C11 witness: one caller reads the slot under the shared lock and finds it
\* fresh while the request of another, which found it empty, is in flight
C11_Witness ==
    \E p \in Procs : \E q \in Procs \ {p} :
        /\ pc[p] = "hit"
        /\ p \in readers
        /\ pc[q] = "inflight"
        /\ Typed(q) = Typed(p)
        /\ ~seen[q].set

\* goroutine p is in a cached method and its read of the slot was a miss
Missed(p) ==
    /\ InCached(p)
    /\ ~hit[p]
    /\ \/ pc[p] \in {"miss", "lock"} \cup InExchange \cup PastGate
       \/ TypedDone(p)

\* the result member of the body p received, "" when absent
OwnResult(p) == IF got[p].body.hasResult THEN got[p].body.result ELSE ""

\* C12: every caller that read the slot empty or stale makes a request of
\* its own, whatever the other callers do and whatever the slot has become
\* since: it is never held up before its request, it returns what its own
\* response carried, and when that succeeded it has stored its own value with
\* the time of its own store, over whatever was there; the slot's timestamp,
\* from which the next expiry counts, is the one of the last store.
C12_NoDeduplication ==
    /\ [](\A p \in Procs :
             /\ (Missed(p) /\ pc[p] \in {"miss", "send"}) => ENABLED Running(p)
             /\ (Missed(p) /\ pc[p] \notin {"miss", "send"}) => reqs[p] = 1
             /\ (Missed(p) /\ TypedDone(p) /\ res[p].err = NoErr) =>
                   /\ res[p].val = OwnResult(p)
                   /\ SlotOf(Typed(p)).set
                   /\ SlotOf(Typed(p)).timestamp >= readAt[p]
             /\ (Missed(p) /\ pc[p] = "unlock") =>
                   /\ SlotOf(Typed(p)).value = OwnResult(p)
                   /\ SlotOf(Typed(p)).timestamp >= readAt[p])
    /\ [][\A p \in Procs :
             (Missed(p) /\ pc[p] = "store" /\ pc'[p] # "store") =>
                 SlotOf(Typed(p))' = cachedValue(OwnResult(p), now)]_vars
    /\ [][\A o \in CachedOps :
             SlotOf(o)' # SlotOf(o) =>
                 /\ SlotOf(o)'.timestamp = now
                 /\ \E p \in Procs : Typed(p) = o /\ pc[p] = "store"]_vars

\* C12 witness: two callers of GetVersion both found the slot empty, both
\* made a request, both stored; they returned different values, and the slot
\* holds one of them, stamped after both reads
C12_Witness ==
    \E p \in Procs : \E q \in Procs \ {p} :
        /\ pc[p] = "ret" /\ pc[q] = "ret"
        /\ op[p] = "GetVersion" /\ op[q] = "GetVersion"
        /\ ~seen[p].set /\ ~seen[q].set
        /\ reqs[p] = 1 /\ reqs[q] = 1
        /\ res[p] = [val |-> "r1", err |-> NoErr]
        /\ res[q] = [val |-> "r2", err |-> NoErr]
        /\ versionCache.value = "r2"
        /\ versionCache.timestamp > readAt[p]
        /\ versionCache.timestamp > readAt[q]

\* a slot is nil or a whole {value, timestamp} pair
WholeSlot(slot) ==
    \/ slot = Nil
    \/ /\ DOMAIN slot = {"set", "value", "timestamp"}
       /\ slot.set
       /\ slot.value \in Results \cup {""}
       /\ slot.timestamp \in 0..now

\* C13: stores are serialized by the exclusive lock: at most one caller is
\* between Lock and Unlock, none is inside the shared lock meanwhile, and no
\* slot changes under a reader, so a reader sees nil or a whole pair.  A
\* store replaces the slot by the storing caller's own value, whenever that
\* response arrived and whatever the slot held: the last store wins.
C13_WritesSerialized ==
    /\ [](/\ Cardinality({p \in Procs : pc[p] \in InExclusive}) <= 1
          /\ (\E p \in Procs : pc[p] \in InExclusive) => readers = {}
          /\ \A o \in CachedOps : WholeSlot(SlotOf(o))
          /\ \A p \in Procs : WholeSlot(seen[p])
          /\ \A p \in Procs : pc[p] \in {"hit", "miss"} => seen[p] = SlotOf(Typed(p)))
    /\ [][cacheVars' # cacheVars =>
             /\ readers = {}
             /\ \E p \in Procs :
                   /\ pc[p] = "store"
                   /\ \A q \in Procs \ {p} : pc[q] \notin InExclusive
                   /\ SlotOf(Typed(p))' = cachedValue(val[p], now)
                   /\ pc'[p] = "unlock"]_vars

\* C13 witness: the response with "r1" arrived before the one with "r2",
\* both callers have stored and returned, and the slot holds "r1", stamped
\* after the arrival of "r2"
C13_Witness ==
    \E p \in Procs : \E q \in Procs \ {p} :
        /\ pc[p] = "ret" /\ pc[q] = "ret"
        /\ op[p] = "GetVersion" /\ op[q] = "GetVersion"
        /\ res[p] = [val |-> "r1", err |-> NoErr]
        /\ res[q] = [val |-> "r2", err |-> NoErr]
        /\ reqs[p] = 1 /\ reqs[q] = 1
        /\ gotAt[p] < gotAt[q]
        /\ versionCache.value = "r1"
        /\ versionCache.timestamp >= gotAt[q]

\* the state of a slot at instant t
SlotState(slot, t) ==
    IF ~slot.set THEN "Empty"
    ELSE IF t - slot.timestamp < cacheValidity THEN "Fresh" ELSE "Stale"

\* C14 as stated: a slot changes only by a store made while it is Empty or
\* Stale, which makes it Fresh; otherwise it keeps its state, or goes from
\* Fresh to Stale as time passes.
C14_OnlyThreeTransitions ==
    [][\A o \in CachedOps :
          IF SlotOf(o)' # SlotOf(o)
          THEN /\ SlotState(SlotOf(o), now) \in {"Empty", "Stale"}
               /\ SlotState(SlotOf(o)', now') = "Fresh"
          ELSE \/ SlotState(SlotOf(o)', now') = SlotState(SlotOf(o), now)
               \/ /\ SlotState(SlotOf(o), now) = "Fresh"
                  /\ SlotState(SlotOf(o)', now') = "Stale"]_vars

\* C14 amended: a slot changes only by the store of a caller that read it
\* Empty or Stale and whose refresh succeeded, and the store makes it Fresh;
\* the slot may be Empty or Stale then, or Fresh, refreshed by another caller
\* since the storing caller's read.  Otherwise the slot keeps its state or
\* goes from Fresh to Stale as time passes; a failed refresh changes no
\* slot, and no slot becomes Empty again.
C14_SlotTransitions ==
    /\ [][\A o \in CachedOps :
             IF SlotOf(o)' # SlotOf(o)
             THEN /\ SlotState(SlotOf(o)', now') = "Fresh"
                  /\ \E p \in Procs :
                        /\ pc[p] = "store" /\ Typed(p) = o
                        /\ SlotState(seen[p], readAt[p]) \in {"Empty", "Stale"}
                        /\ ~Failure(got[p])
                        /\ SlotState(SlotOf(o), now) = "Fresh" =>
                              (SlotOf(o) # seen[p] /\ SlotOf(o).timestamp >= readAt[p])
             ELSE \/ SlotState(SlotOf(o)', now') = SlotState(SlotOf(o), now)
                  \/ /\ SlotState(SlotOf(o), now) = "Fresh"
                     /\ SlotState(SlotOf(o)', now') = "Stale"
                     /\ now' > now]_vars
    /\ [][\A p \in Procs :
             (ExchangeEnds(p) /\ Failure(got'[p])) => cacheVars' = cacheVars]_vars
    /\ [][\A o \in CachedOps : SlotOf(o).set => SlotOf(o)'.set]_vars

\* C14 witness: a caller that read the slot Empty is about to store "r1"
\* into it, and the slot is Fresh with the "r2" another caller stored
C14_Witness ==
    \E p \in Procs :
        /\ pc[p] = "store"
        /\ op[p] = "GetVersion"
        /\ ~seen[p].set
        /\ val[p] = "r1"
        /\ SlotState(versionCache, now) = "Fresh"
        /\ versionCache.value = "r2"

\* goroutine p is in TestConnection, or has just returned from it
Probing(p) == op[p] = "TestConnection" /\ pc[p] # "idle"

\* the probe is between two iterations of its loop, or has left the loop
\* by its condition
LoopEnded(p) ==
    \/ pc[p] = "tc_loop"
    \/ pc[p] = "ret" /\ tcErr[p].kind = "failed to connect"

\* C15: each attempt of TestConnection is one call of GetVersion, which
\* looks at the cache first, so the attempts made bound the HTTP requests
\* made; an attempt that finds the version slot fresh ends the probe with nil
\* and without a request, also with the context cancelled, and a probe whose
\* first attempt does so has issued no request at all.
C15_OneFetchPerAttempt ==
    /\ [](\A p \in Procs :
             Probing(p) =>
                 /\ attempts[p] = i[p] + (IF LoopEnded(p) THEN 0 ELSE 1)
                 /\ reqs[p] <= 1
                 /\ tcReqs[p] + (IF pc[p] \in {"tc_loop", "tc_wait", "ret"}
                                 THEN 0 ELSE reqs[p]) <= attempts[p]
                 /\ (pc[p] \in InExchange
                       /\ SlotState(versionCache, now) = "Fresh") =>
                       versionCache.timestamp >= readAt[p]
                 /\ (TypedDone(p) /\ seen[p].set
                       /\ readAt[p] - seen[p].timestamp < cacheValidity) =>
                       (reqs[p] = 0 /\ res[p].err = NoErr)
                 /\ (pc[p] = "ret" /\ attempts[p] = 1 /\ seen[p].set
                       /\ readAt[p] - seen[p].timestamp < cacheValidity) =>
                       (tcErr[p] = NoErr /\ tcReqs[p] = 0 /\ tcWaits[p] = <<>>))
    /\ [][\A p \in Procs :
             (Probing(p) /\ pc[p] = "tc_loop" /\ pc'[p] \notin {"tc_loop", "ret"}) =>
                 /\ pc'[p] = "rlock"
                 /\ attempts'[p] = attempts[p] + 1]_vars

\* C15 witness: a probe whose context is cancelled found, at its first
\* attempt, the version another caller had stored, and has returned nil;
\* the only request of the run is that caller's
C15_Witness ==
    \E p \in Procs :
        /\ pc[p] = "ret"
        /\ op[p] = "TestConnection"
        /\ ctxDone[p]
        /\ attempts[p] = 1
        /\ hit[p]
        /\ tcErr[p] = NoErr
        /\ tcReqs[p] = 0
        /\ nreq = 1

\* goroutine p takes a step of its call
Moves(p) == pc'[p] # pc[p]

\* C16: the version slot changes only in the store of a GetVersion call,
\* made directly or by TestConnection, and the health slot only in the store
\* of a GetHealth call; no step of GetBlockTime, GetEpochInfo,
\* GetMinimumLedgerSlot or GetFirstAvailableBlock changes a slot or touches
\* the lock, whether the call succeeds or fails.
C16_Frame ==
    /\ [][/\ versionCache' # versionCache =>
                /\ healthCache' = healthCache
                /\ \E p \in Procs :
                      /\ op[p] \in {"GetVersion", "TestConnection"}
                      /\ pc[p] = "store" /\ Moves(p)
          /\ healthCache' # healthCache =>
                /\ versionCache' = versionCache
                /\ \E p \in Procs :
                      /\ op[p] = "GetHealth"
                      /\ pc[p] = "store" /\ Moves(p)
          /\ \A p \in Procs :
                (Moves(p) /\ pc[p] # "idle" /\ op[p] = "GetHealth") =>
                    versionCache' = versionCache
          /\ \A p \in Procs :
                (Moves(p) /\ pc[p] # "idle"
                   /\ op[p] \in {"GetVersion", "TestConnection"}) =>
                    healthCache' = healthCache
          /\ \A p \in Procs :
                (Moves(p) /\ op[p] \notin CachedOps \cup {"TestConnection"}) =>
                    (cacheVars' = cacheVars /\ lockVars' = lockVars)]_vars
    /\ [](\A p \in Procs :
             (pc[p] # "idle" /\ op[p] \notin CachedOps \cup {"TestConnection"}) =>
                 pc[p] \in {"send", "inflight", "aborted", "ret"})

\* C16 witness: in a run of one goroutine using every method, the second
\* call, GetHealth, has stored its slot after the second request of the
\* run, and the version slot is still empty
C16_Witness ==
    /\ menu["g1"] = Ops
    /\ pc["g1"] = "ret"
    /\ op["g1"] = "GetHealth"
    /\ calls = 2
    /\ nreq = 2
    /\ res["g1"] = [val |-> "r2", err |-> NoErr]
    /\ healthCache = cachedValue("r2", now)
    /\ versionCache = Nil

\* C17: a non-empty slot's timestamp is never in the future; a slot that
\* changes gets the instant of the change as its timestamp, which is the
\* instant of the store under the exclusive lock, at or after the arrival of
\* the storing caller's response; so the timestamps of successive stores
\* never decrease, and a non-empty slot never becomes empty.
C17_SlotMonotonic ==
    /\ [](\A o \in CachedOps : SlotOf(o).set => SlotOf(o).timestamp <= now)
    /\ [](\A p \in Procs :
             pc[p] = "unlock" =>
                 /\ SlotOf(Typed(p)).timestamp >= gotAt[p]
                 /\ gotAt[p] >= readAt[p])
    /\ [][\A o \in CachedOps :
             /\ SlotOf(o)' # SlotOf(o) =>
                   /\ SlotOf(o)'.set
                   /\ SlotOf(o)'.timestamp = now
                   /\ \E p \in Procs : pc[p] = "store" /\ writer = p /\ Moves(p)
             /\ SlotOf(o).set =>
                   /\ SlotOf(o)'.set
                   /\ SlotOf(o)'.timestamp >= SlotOf(o).timestamp]_vars
    /\ [][now' >= now]_vars

\* C17 witness: a caller looked at the cache, got its response later and
\* stored later still: the slot carries the instant of the store
C17_Witness ==
    \E p \in Procs :
        /\ pc[p] = "unlock"
        /\ readAt[p] < gotAt[p]
        /\ gotAt[p] < SlotOf(Typed(p)).timestamp
        /\ SlotOf(Typed(p)) = cachedValue(val[p], now)

\* goroutine p is inside a call and none of its steps is enabled
Stuck(p) == pc[p] \notin {"idle", "ret"} /\ ~ENABLED Running(p)

\* C18: a caller holds the shared lock only between RLock and the RUnlock of
\* its branch and the exclusive lock only between Lock and Unlock, never
\* both, and holds nothing outside them, in particular not when it returns,
\* waits in the backoff or is in its HTTP exchange.  A caller that cannot
\* step is at RLock or Lock behind a writer, at Lock behind readers, or in
\* the backoff wait; whoever it waits for can step, or owes its step to
\* readers that can: while a call is in progress something can always
\* happen.
C18_NoDeadlock ==
    \A p \in Procs :
        /\ ~(p \in readers /\ writer = p)
        /\ pc[p] \notin InShared => p \notin readers
        /\ pc[p] \notin PastGate => writer # p
        /\ pc[p] \in {"rlock", "lock"} => (p \notin readers /\ writer # p)
        /\ Stuck(p) => pc[p] \in {"rlock", "lock", "lockwait", "tc_wait"}
        /\ (Stuck(p) /\ pc[p] \in {"rlock", "lock"}) =>
              /\ writer \in Procs \ {p}
              /\ \/ ~Stuck(writer)
                 \/ pc[writer] = "lockwait" /\ readers # {}
        /\ (Stuck(p) /\ pc[p] = "lockwait") =>
              /\ readers # {}
              /\ \A r \in readers : r # p /\ ~Stuck(r)
        /\ (Stuck(p) /\ pc[p] = "tc_wait") => ENABLED TimerTick
        /\ pc[p] \notin {"idle", "ret"} =>
              ENABLED ((\E q \in Procs : Running(q)) \/ TimerTick)

\* C18 witness: three callers of GetVersion: one is inside the shared lock,
\* one has called Lock and waits for it to leave, and one is held at RLock
\* behind that writer
C18_Witness ==
    \E p \in Procs : \E q \in Procs \ {p} : \E r \in Procs \ {p, q} :
        /\ pc[p] \in InShared
        /\ pc[q] = "lockwait"
        /\ pc[r] = "rlock"
        /\ Stuck(q) /\ Stuck(r) /\ ~Stuck(p)

\* the exchange of p ended with a body that decodes
Decoded(p) == pc[p] # "idle" /\ got[p].kind = "body" /\ got[p].body.json

\* C19: a typed call whose response decodes returns an error if and only if
\* the body's error.code is not 0; with code 0 it returns the body's result,
\* the zero value when there is none, whatever the HTTP status and whether
\* or not an error member is present, and GetVersion and GetHealth store
\* that value, the zero value included, and serve it from the cache while
\* it is fresh.
C19_FailureIffCode ==
    \A p \in Procs :
        /\ (Decoded(p) /\ TypedDone(p)) =>
              /\ res[p].err # NoErr <=> (got[p].body.hasError /\ got[p].body.code # 0)
              /\ res[p].err = NoErr => res[p].val = OwnResult(p)
              /\ res[p].err # NoErr => res[p].err.kind = "rpc"
        /\ (Decoded(p) /\ pc[p] \in {"lock", "lockwait", "store", "unlock"}) =>
              /\ ~(got[p].body.hasError /\ got[p].body.code # 0)
              /\ val[p] = OwnResult(p)
        /\ (Decoded(p) /\ pc[p] = "unlock") =>
              /\ SlotOf(Typed(p)).set
              /\ SlotOf(Typed(p)).value = OwnResult(p)
              /\ SlotOf(Typed(p)).timestamp >= gotAt[p]
        /\ (InCached(p) /\ pc[p] \in {"hit", "miss"}
              /\ SlotState(seen[p], readAt[p]) = "Fresh" /\ seen[p].value = "") =>
              (pc[p] = "hit" /\ val[p] = "")
        /\ (InCached(p) /\ TypedDone(p)
              /\ SlotState(seen[p], readAt[p]) = "Fresh" /\ seen[p].value = "") =>
              (reqs[p] = 0 /\ res[p] = [val |-> "", err |-> NoErr])

\* C19 witness: GetHealth got status 500 with the body {} and is about to
\* leave the exclusive lock: the slot is Fresh with the empty string
C19_Witness ==
    \E p \in Procs :
        /\ pc[p] = "unlock"
        /\ op[p] = "GetHealth"
        /\ got[p] = GotReply(500, JsonBody(FALSE, "", FALSE, 0))
        /\ healthCache = cachedValue("", now)
        /\ SlotState(healthCache, now) = "Fresh"

====
